---- MODULE Spec2Model ----
(***************************************************************************)
(* Device-authorization state machine of server.py: the three store tables *)
(* (authorized_hwids, pending_hwids, hwid_mapping), the request handlers   *)
(* /activate, /validate, /approve/{hwid_or_short}, the Telegram webhook    *)
(* (approve/deny callbacks, /remove and /clear_pending text commands) and  *)
(* get_or_create_short_id.                                                 *)
(*                                                                         *)
(* Every store function opens its own connection and commits on its own,   *)
(* and the handlers hold no lock or transaction across store calls, so a   *)
(* handler is a sequence of steps, one per store statement; local          *)
(* computation rides with the statement before it.  Every store statement  *)
(* may fail (get_db_connection raising, a statement raising): the except   *)
(* clauses of the db_* functions decide what the handler then sees.        *)
(*                                                                         *)
(* Strings are sequences of one-character strings, so that strip, upper,   *)
(* startswith and len are computed as Python computes them.                *)
(***************************************************************************)
EXTENDS Integers, Sequences, FiniteSets, TLC

VARIABLES
    authorized_hwids,   \* table authorized_hwids: the set of its hwid keys
    pending_hwids,      \* table pending_hwids: the set of its hwid keys
    hwid_mapping,       \* table hwid_mapping: short_id -> full_hwid
    first_short_id,     \* history: full_hwid -> the first alias get_or_create_short_id returned for it
    last_decision,      \* history: hwid -> "approve" when it was last authorized, "deny" when last denied
    req                 \* the requests in flight: slot -> the handler's locals and position

vars == <<authorized_hwids, pending_hwids, hwid_mapping, first_short_id, last_decision, req>>

(***************************************************************************)
(* Bounds of the model.                                                    *)
(***************************************************************************)
NumProcs == 2       \* request slots: handlers that may be in flight together
NumAliases == 2     \* size of the alias space generate_short_id draws from

(***************************************************************************)
(* Program constants.                                                      *)
(***************************************************************************)
ShortIdLen == 8     \* str(uuid.uuid4())[:8]; len(input_val) == 8
FullHwidLen == 64   \* elif len(input_val) < 64
HwidColumnLen == 255 \* hwid VARCHAR(255), full_hwid VARCHAR(255)

Procs == 1..NumProcs

(***************************************************************************)
(* Strings.                                                                *)
(***************************************************************************)
UpperChar(c) ==
    CASE c = "a" -> "A"
      [] c = "b" -> "B"
      [] c = "c" -> "C"
      [] c = "f" -> "F"
      [] OTHER -> c

upper(s) == [i \in 1..Len(s) |-> UpperChar(s[i])]

RECURSIVE lstrip(_)
lstrip(s) == IF s = <<>> THEN <<>>
             ELSE IF Head(s) = " " THEN lstrip(Tail(s)) ELSE s

RECURSIVE rstrip(_)
rstrip(s) == IF s = <<>> THEN <<>>
             ELSE IF s[Len(s)] = " " THEN rstrip(SubSeq(s, 1, Len(s) - 1)) ELSE s

strip(s) == rstrip(lstrip(s))

startswith(s, prefix) ==
    /\ Len(prefix) <= Len(s)
    /\ SubSeq(s, 1, Len(prefix)) = prefix

Repeat(c, n) == [i \in 1..n |-> c]

\* the identity taken as it was sent
NormalizeHwid_verbatim(raw) == raw

\* hwid = request.hwid.strip().upper()
NormalizeHwid(raw) == upper(strip(raw))

(***************************************************************************)
(* Inputs.                                                                 *)
(***************************************************************************)
AliasDigits == <<"A", "B", "C", "D", "E", "F">>

\* the values generate_short_id can return: 8 upper-case hex characters
Aliases == { Repeat("0", ShortIdLen - 1) \o <<AliasDigits[k]>> : k \in 1..NumAliases }

LongHwid == Repeat("f", FullHwidLen)

\* request.hwid of /activate and /validate
RawHwids == { <<"a", "b">>, <<" ", "A", "B", " ">>, <<"A", "B", "C">> }

\* request.hwid: str takes any string, the empty and the very long included
Oversized == Repeat("a", HwidColumnLen + 1)

MalformedHwids == { <<>>, <<" ">>, Oversized }

\* hwid_or_short of /approve/{hwid_or_short}
ApproveInputs == Aliases \cup { <<"a", "b">>, <<"X">>, LongHwid }

\* the argument of the /remove text command
RemoveInputs == { <<"a", "b">>, <<"A", "B", "C">>, <<"f">>, <<"X">> }

\* callback_data of a button: f"approve:{short_id}", f"deny:{short_id}"
callback_data(action, short_id) == <<action, ":">> \o short_id

buttons(short_id) == { callback_data("approve", short_id), callback_data("deny", short_id) }

CallbackInputs ==
    { callback_data(a, s) : a \in {"approve", "deny", "other"}, s \in Aliases }
        \cup { <<"approve">> }

\* action, short_id = cmd.split(":", 1)
HasColon(cmd) == \E i \in 1..Len(cmd) : cmd[i] = ":"
ColonAt(cmd) == CHOOSE i \in 1..Len(cmd) : cmd[i] = ":" /\ \A j \in 1..(i - 1) : cmd[j] # ":"
SplitAction(cmd) == SubSeq(cmd, 1, ColonAt(cmd) - 1)
SplitShortId(cmd) == SubSeq(cmd, ColonAt(cmd) + 1, Len(cmd))

(***************************************************************************)
(* A request slot.                                                         *)
(***************************************************************************)
Idle ==
    [ pc |-> "idle", op |-> "none", raw |-> <<>>, hwid |-> <<>>, short_id |-> <<>>,
      action |-> "none", authorized |-> {}, pending |-> {},
      resp |-> "none", sent |-> {}, db_failed |-> FALSE,
      entered |-> FALSE, was_unknown |-> FALSE, got_alias |-> FALSE,
      payload |-> <<>>, from_admin |-> FALSE, before |-> "none",
      delivery |-> "none", conflict |-> FALSE, key |-> "none" ]

Init ==
    /\ authorized_hwids = {}
    /\ pending_hwids = {}
    /\ hwid_mapping = <<>>
    /\ first_short_id = <<>>
    /\ last_decision = <<>>
    /\ req = [p \in Procs |-> Idle]


R(p) == req[p]

Upd(p, r) == req' = [req EXCEPT ![p] = r]

\* the handler returns: its locals die with it, the response and what it sent stay
Finish(r, resp) == [r EXCEPT !.pc = "done", !.resp = resp, !.authorized = {}, !.pending = {}]

\* what becomes of the POST to api.telegram.org: status 200, another status,
\* or an exception (requests.post(..., timeout=6) timing out or not connecting)
Deliveries == {"ok", "failed", "timeout"}

\* send_telegram letting the exception of requests.post through to the handler
send_telegram_raising(r, d) ==
    IF d = "timeout" THEN [r EXCEPT !.delivery = d, !.resp = "http_500"]
    ELSE [r EXCEPT !.delivery = d]

\* send_telegram(message, buttons): prints or swallows whatever happens and
\* returns None; the handler goes on to its return statement
send_telegram(r, d) == [r EXCEPT !.delivery = d]

(***************************************************************************)
(* Store functions.  ok = FALSE is the except clause.                      *)
(***************************************************************************)
db_get_authorized(ok) == IF ok THEN authorized_hwids ELSE {}

db_get_pending(ok) == IF ok THEN pending_hwids ELSE {}

\* the two hwid tables as the writing functions leave them
Tables == [authorized |-> authorized_hwids, pending |-> pending_hwids]

Commit(t) ==
    /\ authorized_hwids' = t.authorized
    /\ pending_hwids' = t.pending

\* an INSERT of hwid goes through: the store answers and the value fits the
\* column (a longer one raises, which the except clause swallows)
Stored(hwid, ok) == ok /\ Len(hwid) <= HwidColumnLen

\* db_add_authorized whose conflict clause deletes the row it meets
db_add_authorized_toggling(hwid, ok) ==
    IF ~Stored(hwid, ok) THEN Tables
    ELSE IF hwid \in authorized_hwids THEN [Tables EXCEPT !.authorized = @ \ {hwid}]
    ELSE [Tables EXCEPT !.authorized = @ \cup {hwid}]

\* INSERT INTO authorized_hwids ... ON CONFLICT (hwid) DO NOTHING
db_add_authorized(hwid, ok) ==
    IF Stored(hwid, ok) THEN [Tables EXCEPT !.authorized = @ \cup {hwid}] ELSE Tables

\* db_remove_authorized without its DELETE
db_remove_authorized_nothing(hwid, ok) == Tables

\* DELETE FROM authorized_hwids WHERE hwid = %s
db_remove_authorized(hwid, ok) ==
    IF ok THEN [Tables EXCEPT !.authorized = @ \ {hwid}] ELSE Tables

\* db_add_pending without its conn.commit()
db_add_pending_uncommitted(hwid, ok) == Tables

\* db_add_pending inserting into the other table
db_add_pending_wrong_table(hwid, ok) ==
    IF ok THEN [Tables EXCEPT !.authorized = @ \cup {hwid}] ELSE Tables

\* INSERT INTO pending_hwids ... ON CONFLICT (hwid) DO NOTHING
db_add_pending(hwid, ok) ==
    IF Stored(hwid, ok) THEN [Tables EXCEPT !.pending = @ \cup {hwid}] ELSE Tables

\* DELETE FROM pending_hwids WHERE hwid = %s
db_remove_pending(hwid, ok) ==
    IF ok THEN [Tables EXCEPT !.pending = @ \ {hwid}] ELSE Tables

\* DELETE FROM pending_hwids
db_clear_pending(ok) ==
    IF ok THEN [Tables EXCEPT !.pending = {}] ELSE Tables

\* UPDATE authorized_hwids SET last_validated = CURRENT_TIMESTAMP WHERE hwid = %s:
\* the keys of the table stay
db_update_last_validated(hwid, ok) == Tables

MappedHwids == { hwid_mapping[s] : s \in DOMAIN hwid_mapping }

\* the INSERT of get_or_create_short_id emptying the table first
hwid_mapping_replace(short_id, full_hwid) == (short_id :> full_hwid)

\* INSERT INTO hwid_mapping (short_id, full_hwid) VALUES (%s, %s)
hwid_mapping_insert(short_id, full_hwid) == (short_id :> full_hwid) @@ hwid_mapping

\* get_hwid_from_short_id returning its argument when it finds no row
get_hwid_from_short_id_or_self(short_id, ok) ==
    IF ok /\ short_id \in DOMAIN hwid_mapping THEN hwid_mapping[short_id] ELSE short_id

\* SELECT full_hwid FROM hwid_mapping WHERE short_id = %s; None without a row
\* and in the except clause
get_hwid_from_short_id(short_id, ok) ==
    IF ok /\ short_id \in DOMAIN hwid_mapping THEN hwid_mapping[short_id] ELSE <<>>

\* for h in list: if h.upper().startswith(prefix): found = h; break
\* (the SELECT has no ORDER BY: any matching row may come first)
Matches(list, prefix) == { h \in list : startswith(upper(h), prefix) }

\* where the two tables have the identity
Before(hwid) ==
    IF hwid \in authorized_hwids
    THEN IF hwid \in pending_hwids THEN "both" ELSE "authorized"
    ELSE IF hwid \in pending_hwids THEN "pending" ELSE "unknown"

(***************************************************************************)
(* get_or_create_short_id, called by /activate and /validate; both send    *)
(* the request notification with the two buttons and answer                *)
(* authorized: False right after it.                                       *)
(***************************************************************************)
RecordFirst(hwid, short_id) ==
    first_short_id' = IF hwid \in DOMAIN first_short_id THEN first_short_id
                      ELSE (hwid :> short_id) @@ first_short_id

\* get_or_create_short_id returns short_id; send_telegram(..., buttons); return
Notify(p, E, short_id, ok) ==
    /\ \E d \in E.delivery :
          Upd(p, send_telegram(Finish([R(p) EXCEPT !.short_id = short_id, !.got_alias = TRUE,
                                                  !.sent = buttons(short_id),
                                                  !.db_failed = @ \/ ~ok],
                                     "not_authorized"), d))
    /\ RecordFirst(R(p).hwid, short_id)

\* except Exception: return generate_short_id()
ShortIdFallback(p, E, ok) == \E short_id \in Aliases : Notify(p, E, short_id, ok)

\* SELECT short_id FROM hwid_mapping WHERE full_hwid = %s; short_id = generate_short_id()
ShortIdSelect(p, E) ==
    /\ R(p).pc = "sid_select"
    /\ UNCHANGED <<authorized_hwids, pending_hwids, hwid_mapping, last_decision>>
    /\ \E ok \in E.ok :
        IF ~ok THEN ShortIdFallback(p, E, ok)
        ELSE IF R(p).hwid \in MappedHwids
        THEN \E s \in DOMAIN hwid_mapping :
                /\ hwid_mapping[s] = R(p).hwid
                /\ Notify(p, E, s, TRUE)
        ELSE /\ \E short_id \in Aliases :
                    Upd(p, [R(p) EXCEPT !.pc = "sid_check", !.short_id = short_id])
             /\ UNCHANGED first_short_id

\* while True: SELECT 1 FROM hwid_mapping WHERE short_id = %s
ShortIdCheck(p, E) ==
    /\ R(p).pc = "sid_check"
    /\ UNCHANGED <<authorized_hwids, pending_hwids, hwid_mapping, last_decision>>
    /\ \E ok \in E.ok :
        IF ~ok THEN ShortIdFallback(p, E, ok)
        ELSE IF R(p).short_id \in DOMAIN hwid_mapping
        THEN /\ \E short_id \in Aliases : Upd(p, [R(p) EXCEPT !.short_id = short_id])
             /\ UNCHANGED first_short_id
        ELSE /\ Upd(p, [R(p) EXCEPT !.pc = "sid_insert"])
             /\ UNCHANGED first_short_id

\* INSERT INTO hwid_mapping (short_id, full_hwid): short_id is the primary key,
\* full_hwid is UNIQUE; a violation raises, like a store failure
ShortIdInsert(p, E) ==
    /\ R(p).pc = "sid_insert"
    /\ UNCHANGED <<authorized_hwids, pending_hwids, last_decision>>
    /\ \E ok \in E.ok :
        IF /\ Stored(R(p).hwid, ok)
           /\ R(p).short_id \notin DOMAIN hwid_mapping
           /\ R(p).hwid \notin MappedHwids
        THEN /\ hwid_mapping' = hwid_mapping_insert(R(p).short_id, R(p).hwid)
             /\ Notify(p, E, R(p).short_id, TRUE)
        ELSE /\ UNCHANGED hwid_mapping
             /\ ShortIdFallback(p, E, ok)


(***************************************************************************)
(* /activate and /validate.                                                *)
(***************************************************************************)
Unknown(hwid) == hwid \notin authorized_hwids /\ hwid \notin pending_hwids

RsaKeys == {"valid", "unset", "invalid"}

\* hwid = request.hwid.strip().upper(); authorized = db_get_authorized()
Start(p, op, raw, ok) ==
    /\ R(p).pc = "idle"
    /\ Upd(p, [Idle EXCEPT !.pc = "get_pending", !.op = op, !.raw = raw,
                           !.hwid = NormalizeHwid(raw),
                           !.authorized = db_get_authorized(ok),
                           !.db_failed = ~ok,
                           !.was_unknown = Unknown(NormalizeHwid(raw)),
                           !.before = Before(NormalizeHwid(raw))])
    /\ UNCHANGED <<authorized_hwids, pending_hwids, hwid_mapping, first_short_id, last_decision>>

activate(p, E) == \E raw \in E.hwid, ok \in E.ok : Start(p, "activate", raw, ok)

validate(p, E) == \E raw \in E.hwid, ok \in E.ok : Start(p, "validate", raw, ok)

\* pending = db_get_pending(), and the handler's branch on the two lists
\*   activate: if hwid not in authorized: (if hwid not in pending: db_add_pending) ...
\*   validate: if hwid in authorized: ...; if hwid not in pending: db_add_pending ...
RequestGetPending(p, E) ==
    /\ R(p).pc = "get_pending"
    /\ R(p).op \in {"activate", "validate"}
    /\ UNCHANGED <<authorized_hwids, pending_hwids, hwid_mapping, first_short_id, last_decision>>
    /\ \E ok \in E.ok :
        LET pending == db_get_pending(ok)
            r == [R(p) EXCEPT !.pending = pending, !.db_failed = @ \/ ~ok]
        IN  IF R(p).hwid \in R(p).authorized
            THEN Upd(p, [r EXCEPT !.pc = "touch"])
            ELSE IF R(p).hwid \notin pending
            THEN Upd(p, [r EXCEPT !.pc = "add_pending"])
            ELSE IF R(p).op = "activate"
            THEN Upd(p, [r EXCEPT !.pc = "sid_select"])
            ELSE Upd(p, Finish(r, "not_authorized"))

\* db_add_pending(hwid)
RequestAddPending(p, E) ==
    /\ R(p).pc = "add_pending"
    /\ UNCHANGED <<hwid_mapping, first_short_id, last_decision>>
    /\ \E ok \in E.ok :
        /\ Commit(db_add_pending(R(p).hwid, ok))
        /\ Upd(p, [R(p) EXCEPT !.pc = "sid_select", !.db_failed = @ \/ ~ok,
                               !.entered = Stored(R(p).hwid, ok)
                                               /\ R(p).hwid \notin pending_hwids,
                               !.conflict = Stored(R(p).hwid, ok)
                                               /\ R(p).hwid \in pending_hwids])

\* db_update_last_validated(hwid), then
\*   activate: the RSA-signed payload {"hwid": hwid, ...}, or HTTP 500 without
\*             a usable key
\*   validate: return {"authorized": True}
RequestTouch(p, E) ==
    /\ R(p).pc = "touch"
    /\ UNCHANGED <<hwid_mapping, first_short_id, last_decision>>
    /\ \E ok \in E.ok, key \in RsaKeys :
        /\ Commit(db_update_last_validated(R(p).hwid, ok))
        /\ LET r == [R(p) EXCEPT !.db_failed = @ \/ ~ok]
           IN  IF R(p).op = "validate"
               THEN Upd(p, Finish(r, "authorized"))
               ELSE IF key = "valid"
               THEN Upd(p, Finish([r EXCEPT !.payload = R(p).hwid, !.key = key],
                                  "authorized_signed"))
               ELSE Upd(p, Finish([r EXCEPT !.key = key], "http_500"))

(***************************************************************************)
(* The operator's decisions: the approve/deny callback of the webhook and  *)
(* POST /approve/{hwid_or_short}.                                          *)
(***************************************************************************)
\* after the lists are read and hw is known
\*   approve: if hw not in authorized: db_add_authorized(hw)
\*            if hw in pending: db_remove_pending(hw)
\*   deny:    if hw in pending: db_remove_pending(hw)
\*            if hw in authorized: db_remove_authorized(hw)
\* an approve that refuses an identity it finds authorized
Ack_refusing_repeat(r) ==
    IF r.action = "approve" /\ r.hwid \in r.authorized THEN "http_409"
    ELSE IF r.op = "approve_hwid" THEN "ok_approved"
    ELSE IF r.action = "approve" THEN "Approved"
    ELSE IF r.action = "deny" THEN "Denied"
    ELSE "ok"

Ack(r) == IF r.op = "approve_hwid" THEN "ok_approved"
          ELSE IF r.action = "approve" THEN "Approved"
          ELSE IF r.action = "deny" THEN "Denied"
          ELSE "ok"

\* the acknowledgement and the confirmation message, then the return
Decided(r, d) == send_telegram(Finish(r, Ack(r)), d)

AfterLists(r, d) ==
    IF r.action = "approve"
    THEN IF r.hwid \notin r.authorized THEN [r EXCEPT !.pc = "add_authorized"]
         ELSE IF r.hwid \in r.pending THEN [r EXCEPT !.pc = "remove_pending"]
         ELSE Decided(r, d)
    ELSE IF r.action = "deny"
    THEN IF r.hwid \in r.pending THEN [r EXCEPT !.pc = "remove_pending"]
         ELSE IF r.hwid \in r.authorized THEN [r EXCEPT !.pc = "remove_authorized"]
         ELSE Decided(r, d)
    ELSE Finish(r, Ack(r))

\* the history of the decisions, where it is kept: an identity that enters the
\* authorized table was approved, an identity whose deny is answered was denied,
\* and, where the removals are kept too, an identity /remove deleted was removed
Record(p, E) ==
    last_decision' =
        IF ~E.history THEN last_decision
        ELSE IF R(p).pc = "add_authorized" /\ R(p).hwid \in authorized_hwids'
        THEN (R(p).hwid :> "approve") @@ last_decision
        ELSE IF /\ req'[p].pc = "done"
                /\ req'[p].op = "callback" /\ req'[p].action = "deny"
                /\ req'[p].resp = "Denied"
        THEN (req'[p].hwid :> "deny") @@ last_decision
        ELSE IF /\ E.removals
                /\ R(p).pc = "remove_authorized" /\ R(p).op = "admin"
                /\ R(p).hwid \notin authorized_hwids'
        THEN (R(p).hwid :> "remove") @@ last_decision
        ELSE last_decision

\* POST /bot/{token} with a callback_query
bot_webhook_callback(p, E) ==
    /\ R(p).pc = "idle"
    /\ UNCHANGED <<authorized_hwids, pending_hwids, hwid_mapping, first_short_id, last_decision>>
    /\ \E token_ok \in E.token_ok, from_admin \in E.from_admin, cmd \in E.callback,
          ok \in E.ok :
        LET r == [Idle EXCEPT !.op = "callback", !.from_admin = from_admin]
        IN  IF ~token_ok THEN Upd(p, Finish(r, "token mismatch"))
            ELSE IF ~from_admin THEN Upd(p, Finish(r, "Not authorized"))
            ELSE IF ~HasColon(cmd) THEN Upd(p, Finish(r, "Unknown cmd"))
            ELSE LET action == SplitAction(cmd)[1]
                     short_id == SplitShortId(cmd)
                     hwid == get_hwid_from_short_id(short_id, ok)
                     r2 == [r EXCEPT !.action = action, !.short_id = short_id,
                                     !.db_failed = ~ok]
                 IN  IF hwid = <<>> THEN Upd(p, Finish(r2, "ID not found"))
                     ELSE Upd(p, [r2 EXCEPT !.pc = "get_authorized", !.hwid = upper(hwid),
                                            !.before = Before(upper(hwid))])

\* authorized = db_get_authorized()
CallbackGetAuthorized(p, E) ==
    /\ R(p).pc = "get_authorized"
    /\ UNCHANGED <<authorized_hwids, pending_hwids, hwid_mapping, first_short_id, last_decision>>
    /\ \E ok \in E.ok :
        Upd(p, [R(p) EXCEPT !.pc = "get_pending", !.authorized = db_get_authorized(ok),
                            !.db_failed = @ \/ ~ok])

\* pending = db_get_pending()
CallbackGetPending(p, E) ==
    /\ R(p).pc = "get_pending"
    /\ R(p).op = "callback"
    /\ UNCHANGED <<authorized_hwids, pending_hwids, hwid_mapping, first_short_id>>
    /\ \E ok \in E.ok, d \in E.delivery :
        Upd(p, AfterLists([R(p) EXCEPT !.pending = db_get_pending(ok),
                                       !.db_failed = @ \/ ~ok], d))
    /\ Record(p, E)

\* POST /approve/{hwid_or_short}: input_val, auth = db_get_authorized().
\* The route takes the path parameter only: whoever calls it (from_admin or
\* not), the handler does the same
approve_hwid(p, E) ==
    /\ R(p).pc = "idle"
    /\ UNCHANGED <<authorized_hwids, pending_hwids, hwid_mapping, first_short_id, last_decision>>
    /\ \E hwid_or_short \in E.approve, from_admin \in E.from_admin, ok \in E.ok :
        Upd(p, [Idle EXCEPT !.pc = "get_pending", !.op = "approve_hwid",
                            !.action = "approve", !.from_admin = from_admin,
                            !.short_id = upper(strip(hwid_or_short)),
                            !.authorized = db_get_authorized(ok),
                            !.db_failed = ~ok])

\* pending = db_get_pending(), then the three ways to read input_val
ApproveGetPending(p, E) ==
    /\ R(p).pc = "get_pending"
    /\ R(p).op = "approve_hwid"
    /\ UNCHANGED <<authorized_hwids, pending_hwids, hwid_mapping, first_short_id, last_decision>>
    /\ \E ok \in E.ok, d \in E.delivery :
        LET input_val == R(p).short_id
            pending == db_get_pending(ok)
            r == [R(p) EXCEPT !.pending = pending, !.db_failed = @ \/ ~ok]
            inPending == Matches(pending, input_val)
            inAuth == Matches(R(p).authorized, input_val)
        IN  IF Len(input_val) = ShortIdLen
            THEN Upd(p, [r EXCEPT !.pc = "resolve"])
            ELSE IF Len(input_val) < FullHwidLen
            THEN IF inPending # {}
                 THEN \E found \in inPending :
                        Upd(p, AfterLists([r EXCEPT !.hwid = found, !.before = Before(found)], d))
                 ELSE IF inAuth # {}
                 THEN \E found \in inAuth :
                        Upd(p, AfterLists([r EXCEPT !.hwid = found, !.before = Before(found)], d))
                 ELSE Upd(p, Finish(r, "http_404"))
            ELSE Upd(p, AfterLists([r EXCEPT !.hwid = input_val,
                                             !.before = Before(input_val)], d))

\* full_hwid = get_hwid_from_short_id(input_val)
ApproveResolve(p, E) ==
    /\ R(p).pc = "resolve"
    /\ UNCHANGED <<authorized_hwids, pending_hwids, hwid_mapping, first_short_id, last_decision>>
    /\ \E ok \in E.ok, d \in E.delivery :
        LET full_hwid == get_hwid_from_short_id(R(p).short_id, ok)
            r == [R(p) EXCEPT !.db_failed = @ \/ ~ok]
        IN  IF full_hwid # <<>>
            THEN Upd(p, AfterLists([r EXCEPT !.hwid = full_hwid,
                                             !.before = Before(full_hwid)], d))
            ELSE Upd(p, Finish(r, "http_404"))

\* db_add_authorized(hw)
DecideAddAuthorized(p, E) ==
    /\ R(p).pc = "add_authorized"
    /\ UNCHANGED <<hwid_mapping, first_short_id>>
    /\ \E ok \in E.ok, d \in E.delivery :
        /\ Commit(db_add_authorized(R(p).hwid, ok))
        /\ LET r == [R(p) EXCEPT !.db_failed = @ \/ ~ok,
                                 !.conflict = Stored(R(p).hwid, ok)
                                                 /\ R(p).hwid \in authorized_hwids]
           IN  IF R(p).hwid \in R(p).pending
               THEN Upd(p, [r EXCEPT !.pc = "remove_pending"])
               ELSE Upd(p, Decided(r, d))
    /\ Record(p, E)

\* db_remove_pending(hw)
DecideRemovePending(p, E) ==
    /\ R(p).pc = "remove_pending"
    /\ UNCHANGED <<hwid_mapping, first_short_id>>
    /\ \E ok \in E.ok, d \in E.delivery :
        /\ Commit(db_remove_pending(R(p).hwid, ok))
        /\ LET r == [R(p) EXCEPT !.db_failed = @ \/ ~ok]
           IN  IF R(p).action = "deny" /\ R(p).hwid \in R(p).authorized
               THEN Upd(p, [r EXCEPT !.pc = "remove_authorized"])
               ELSE Upd(p, Decided(r, d))
    /\ Record(p, E)

\* db_remove_authorized(hw): the deny callback, and /remove
DecideRemoveAuthorized(p, E) ==
    /\ R(p).pc = "remove_authorized"
    /\ UNCHANGED <<hwid_mapping, first_short_id>>
    /\ \E ok \in E.ok, d \in E.delivery :
        /\ Commit(db_remove_authorized(R(p).hwid, ok))
        /\ LET r == [R(p) EXCEPT !.db_failed = @ \/ ~ok]
           IN  IF R(p).op = "admin"
               THEN Upd(p, Finish(r, "Removed"))
               ELSE Upd(p, Decided(r, d))
    /\ Record(p, E)

(***************************************************************************)
(* The operator's text commands (handle_admin_command).  /help, /list,     *)
(* /pending, /stats and /view only read the store.                         *)
(***************************************************************************)
AdminCommands ==
    { <<"/clear_pending">>, <<"/remove">>, <<"/list">> }
        \cup { <<"/remove", x>> : x \in RemoveInputs }

\* POST /bot/{token} with a message
bot_webhook_message(p, E) ==
    /\ R(p).pc = "idle"
    /\ UNCHANGED <<hwid_mapping, first_short_id, last_decision>>
    /\ \E token_ok \in E.token_ok, from_admin \in E.from_admin, parts \in E.command, ok \in E.ok :
        LET r == [Idle EXCEPT !.op = "admin", !.action = parts[1],
                              !.from_admin = from_admin]
        IN  IF ~token_ok
            THEN Upd(p, Finish(r, "token mismatch")) /\ Commit(Tables)
            ELSE IF ~from_admin
            THEN Upd(p, Finish(r, "not allowed")) /\ Commit(Tables)
            ELSE IF parts[1] = "/clear_pending"
            THEN /\ Commit(db_clear_pending(ok))
                 /\ Upd(p, Finish([r EXCEPT !.db_failed = ~ok], "Pending list cleared"))
            ELSE IF parts[1] = "/remove"
            THEN /\ Commit(Tables)
                 /\ IF Len(parts) < 2
                    THEN Upd(p, Finish(r, "Usage"))
                    ELSE LET prefix == upper(parts[2])
                             found == Matches(db_get_authorized(ok), prefix)
                             r2 == [r EXCEPT !.db_failed = ~ok, !.short_id = prefix]
                         IN  IF found # {}
                             THEN \E hwid \in found :
                                    Upd(p, [r2 EXCEPT !.pc = "remove_authorized", !.hwid = hwid,
                                                      !.before = Before(hwid)])
                             ELSE Upd(p, Finish(r2, "HWID not found"))
            ELSE Upd(p, Finish(r, "report")) /\ Commit(Tables)

\* the response is delivered and the slot is free for the next request
Return(p) ==
    /\ R(p).pc = "done"
    /\ Upd(p, Idle)
    /\ UNCHANGED <<authorized_hwids, pending_hwids, hwid_mapping, first_short_id, last_decision>>

(***************************************************************************)
(* Specifications.                                                         *)
(***************************************************************************)
\* the steps of a request of an identity that is not authorized
UnauthorizedStep(p, E) ==
    \/ activate(p, E)
    \/ validate(p, E)
    \/ RequestGetPending(p, E)
    \/ RequestAddPending(p, E)
    \/ ShortIdSelect(p, E)
    \/ ShortIdCheck(p, E)
    \/ ShortIdInsert(p, E)
    \/ Return(p)

\* the steps of the clients' requests
ClientStep(p, E) == UnauthorizedStep(p, E) \/ RequestTouch(p, E)

\* the steps of the operator's requests
OperatorStep(p, E) ==
    \/ bot_webhook_callback(p, E)
    \/ CallbackGetAuthorized(p, E)
    \/ CallbackGetPending(p, E)
    \/ approve_hwid(p, E)
    \/ ApproveGetPending(p, E)
    \/ ApproveResolve(p, E)
    \/ DecideAddAuthorized(p, E)
    \/ DecideRemovePending(p, E)
    \/ DecideRemoveAuthorized(p, E)
    \/ bot_webhook_message(p, E)

Step(p, E) == ClientStep(p, E) \/ OperatorStep(p, E)

\* what the clients, the operator and the store may do
Anything ==
    [ ok |-> BOOLEAN, hwid |-> RawHwids, approve |-> ApproveInputs,
      callback |-> CallbackInputs, command |-> AdminCommands,
      token_ok |-> BOOLEAN, from_admin |-> BOOLEAN, history |-> FALSE,
      removals |-> FALSE, delivery |-> Deliveries ]

\* the store never fails and every webhook call is the operator's
Healthy ==
    [ ok |-> {TRUE}, hwid |-> { <<"a", "b">>, <<"A", "B", "C">> }, approve |-> Aliases,
      callback |-> { callback_data(a, s) : a \in {"approve", "deny"}, s \in Aliases },
      command |-> { <<"/clear_pending">>, <<"/remove", <<"a", "b">> >> },
      token_ok |-> {TRUE}, from_admin |-> {TRUE}, history |-> FALSE,
      removals |-> FALSE, delivery |-> {"ok"} ]

\* one server process: uvicorn.run(app) runs the async handlers, which never
\* await between store calls, one after the other
Next == Step(1, Anything)

Spec == Init /\ [][Next]_vars

\* several server processes (uvicorn workers, replicas) on one database: the
\* store statements of their handlers interleave.  Slot 1 serves any request,
\* the other slots serve the clients' requests (there is one operator)
NextConc ==
    \/ Step(1, Healthy)
    \/ \E p \in Procs \ {1} : ClientStep(p, Healthy)

SpecConc == Init /\ [][NextConc]_vars

\* clients alone, one identity more than there are aliases, the store up
ManyHwids ==
    [ Healthy EXCEPT !.hwid = { <<"a">> \o Repeat("b", k) : k \in 0..NumAliases } ]

NextAlias == UnauthorizedStep(1, ManyHwids)

\* generate_short_id is random: when an unused alias exists, a handler in the
\* loop draws one sooner or later
FreshDraw ==
    /\ ShortIdCheck(1, ManyHwids)
    /\ req'[1].short_id \notin DOMAIN hwid_mapping

\* a handler in the loop keeps running it
SpecAlias ==
    /\ Init
    /\ [][NextAlias]_vars
    /\ WF_vars(ShortIdCheck(1, ManyHwids))
    /\ SF_vars(FreshDraw)

\* one server process, the store up, clients that also send empty, blank and
\* oversized identities
Careless == [Healthy EXCEPT !.hwid = MalformedHwids \cup { <<"a", "b">> }]

NextCareless == Step(1, Careless)

SpecCareless == Init /\ [][NextCareless]_vars

\* several server processes serving any request, one device, the store up
Single == [Healthy EXCEPT !.hwid = { <<"a", "b">> }]

NextRace == \E p \in Procs : Step(p, Single)

SpecRace == Init /\ [][NextRace]_vars

\* one server process, the store up, with the history of the decisions kept
Remembered == [Healthy EXCEPT !.history = TRUE]

NextDecided == Step(1, Remembered)

SpecDecided == Init /\ [][NextDecided]_vars

\* one server process, the store up, every encoding of the identities, any
\* input of POST /approve, with the decisions and the removals kept
Chronicled ==
    [ Remembered EXCEPT !.removals = TRUE, !.hwid = RawHwids, !.approve = ApproveInputs ]

NextLicensed == Step(1, Chronicled)

SpecLicensed == Init /\ [][NextLicensed]_vars

(***************************************************************************)
(* Claims.                                                                 *)
(***************************************************************************)
Requests == {"activate", "validate"}

Returned(p) == R(p).pc = "done"

\* C1: each identity is in at most one of the pending and the authorized
\* table, in every reachable state; the one exception granted is the window of
\* an approve that has inserted the identity and is about to delete it from
\* pending.
C1_PendingAuthorizedDisjoint ==
    \A h \in authorized_hwids \cap pending_hwids :
        \E p \in Procs :
            /\ R(p).action = "approve"
            /\ R(p).pc = "remove_pending"
            /\ R(p).hwid = h

\* C2: an identity enters the authorized table only by the db_add_authorized
\* step of an approve decision (callback or /approve) that resolved to it;
\* no step of activate, validate, deny or a text command adds one.
C2_OnlyApproveAuthorizes ==
    [][\A h \in authorized_hwids' \ authorized_hwids :
          \E p \in Procs :
              /\ R(p).op \in {"callback", "approve_hwid"}
              /\ R(p).action = "approve"
              /\ R(p).pc = "add_authorized"
              /\ R(p).hwid = h]_vars

\* an approve decision has just authorized the identity it resolved to
C2_Witness ==
    \E p \in Procs :
        /\ Returned(p)
        /\ R(p).resp \in {"Approved", "ok_approved"}
        /\ R(p).hwid \in authorized_hwids

\* C3: a store outage is never answered as a denial: an activation or
\* validation request of an identity that is in the authorized table, during
\* which a store call failed, is not answered authorized: False.
C3_OutageIsNotDenial ==
    \A p \in Procs :
        ( /\ Returned(p)
          /\ R(p).op \in Requests
          /\ R(p).db_failed
          /\ R(p).hwid \in authorized_hwids )
            => R(p).resp # "not_authorized"

\* the alias rows of an identity
AliasesOf(hwid) == { s \in DOMAIN hwid_mapping : hwid_mapping[s] = hwid }

\* a request whose get_or_create_short_id has returned, with no store failure
GotAlias(p) == Returned(p) /\ R(p).op \in Requests /\ R(p).got_alias

\* C4: activation requests for the same identity, however their store
\* statements interleave and with no store call failing, all carry one alias,
\* the one row the mapping holds for the identity (pending_hwids is keyed by
\* hwid: it cannot hold two rows for it).
C4_OneAliasUnderRace ==
    \A p, q \in Procs :
        ( /\ GotAlias(p) /\ ~R(p).db_failed
          /\ GotAlias(q) /\ ~R(q).db_failed
          /\ R(p).hwid = R(q).hwid )
            => /\ R(p).short_id = R(q).short_id
               /\ AliasesOf(R(p).hwid) = {R(p).short_id}

\* C5: aliases returned for distinct identities are distinct, and an alias
\* returned for one identity never resolves to another.
C5_AliasesInjective ==
    /\ \A p, q \in Procs :
          (GotAlias(p) /\ GotAlias(q) /\ R(p).hwid # R(q).hwid)
              => R(p).short_id # R(q).short_id
    /\ \A p \in Procs :
          (GotAlias(p) /\ R(p).short_id \in DOMAIN hwid_mapping)
              => hwid_mapping[R(p).short_id] = R(p).hwid

\* C6: every call of get_or_create_short_id for an identity returns the alias
\* its first call returned.
C6_AliasStable ==
    \A p \in Procs :
        GotAlias(p) => R(p).short_id = first_short_id[R(p).hwid]

\* C7: the alias get_or_create_short_id returned, the one in the buttons of the
\* notification, resolves through get_hwid_from_short_id to the identity.
C7_AliasRoundTrip ==
    \A p \in Procs :
        GotAlias(p) =>
            /\ R(p).sent = buttons(R(p).short_id)
            /\ get_hwid_from_short_id(R(p).short_id, TRUE) = R(p).hwid

\* C8: alias generation terminates: a handler in the uniqueness loop of
\* get_or_create_short_id leaves it (with an alias or with a failure).
C8_AliasGenerationTerminates ==
    \A p \in Procs : (R(p).pc = "sid_check") ~> (R(p).pc # "sid_check")

\* C9: a request sends the notification with the buttons only when it took
\* the identity from UNKNOWN to PENDING (no store call of the request failed).
C9_NotifyOnlyOnEntering ==
    \A p \in Procs :
        ( /\ Returned(p)
          /\ R(p).op \in Requests
          /\ ~R(p).db_failed
          /\ R(p).sent # {} )
            => R(p).entered

\* C10: a request for an unknown identity, alone and with the store
\* available, is answered authorized: False, leaves the identity pending with
\* exactly one alias row, and has sent the two buttons carrying that alias.
C10_UnknownBecomesPending ==
    \A p \in Procs :
        ( /\ Returned(p)
          /\ R(p).op \in Requests
          /\ R(p).was_unknown
          /\ ~R(p).db_failed )
            => /\ R(p).resp = "not_authorized"
               /\ R(p).hwid \in pending_hwids
               /\ R(p).hwid \notin authorized_hwids
               /\ AliasesOf(R(p).hwid) = {R(p).short_id}
               /\ R(p).sent = { callback_data("approve", R(p).short_id),
                                callback_data("deny", R(p).short_id) }

\* an unknown identity has been activated or validated with the store up
C10_Witness ==
    \E p \in Procs :
        /\ Returned(p)
        /\ R(p).op \in Requests
        /\ R(p).was_unknown
        /\ ~R(p).db_failed
        /\ R(p).entered
        /\ R(p).hwid \in pending_hwids

\* the responses that say authorized: True
Licenses == {"authorized", "authorized_signed"}

\* C11: a license is returned only for an authorized identity: at the step
\* that returns authorized: True the identity is in the authorized table, and
\* the signed claim names the canonical form of the identity the request
\* carried.
C11_LicenseOnlyForAuthorized ==
    [][\A p \in Procs :
          ( /\ R(p).pc = "touch"
            /\ req'[p].pc = "done"
            /\ req'[p].resp \in Licenses )
              => /\ R(p).hwid \in authorized_hwids'
                 /\ req'[p].resp = "authorized_signed"
                        => req'[p].payload = NormalizeHwid(R(p).raw)]_vars

\* C12: every response to an activation or validation request is either
\* authorized: False or authorized: True with a signed claim.
C12_TwoResponseShapes ==
    \A p \in Procs :
        (Returned(p) /\ R(p).op \in Requests)
            => \/ R(p).resp = "not_authorized"
               \/ R(p).resp = "authorized_signed" /\ R(p).payload # <<>>

\* the operator's approve and deny decisions
Decisions == {"callback", "approve_hwid"}

\* C13: a decision that does not come from the operator changes nothing: no
\* step of an approve or deny whose sender is not the configured operator
\* changes the pending table, the authorized table or the alias mapping.
C13_DecisionsAreTheOperators ==
    [][\A p \in Procs :
          ( /\ req'[p] # req[p]
            /\ R(p).op \in Decisions
            /\ ~R(p).from_admin )
              => UNCHANGED <<authorized_hwids, pending_hwids, hwid_mapping>>]_vars

Approved == {"Approved", "ok_approved"}

\* C14: approve is idempotent: an approve of an identity that an approve has
\* left authorized and not pending is answered as approved, like the first,
\* and leaves the identity authorized and not pending (the table is keyed by
\* hwid: one record), whatever the store does during it.
C14_ApproveIdempotent ==
    \A p \in Procs :
        ( /\ Returned(p)
          /\ R(p).op \in Decisions
          /\ R(p).action = "approve"
          /\ R(p).before = "authorized" )
            => /\ R(p).resp \in Approved
               /\ R(p).hwid \in authorized_hwids
               /\ R(p).hwid \notin pending_hwids

\* an authorized identity has been approved again
C14_Witness ==
    \E p \in Procs :
        /\ Returned(p)
        /\ R(p).op \in Decisions
        /\ R(p).action = "approve"
        /\ R(p).before = "authorized"
        /\ R(p).resp \in Approved

Denied(hwid) == hwid \in DOMAIN last_decision /\ last_decision[hwid] = "deny"

C16_NoPendingAfterAuthorized ==
    [][\A h \in pending_hwids' \ pending_hwids :
          ~(h \in DOMAIN last_decision /\ last_decision[h] = "approve")]_vars

\* the status of an identity, given the keys of the two tables
Status(authorized, pending, hwid) ==
    IF hwid \in authorized THEN "AUTHORIZED"
    ELSE IF hwid \in pending THEN "PENDING"
    ELSE "UNKNOWN"

Edges ==
    { <<"UNKNOWN", "PENDING">>, <<"PENDING", "AUTHORIZED">>, <<"PENDING", "UNKNOWN">>,
      <<"AUTHORIZED", "UNKNOWN">>, <<"AUTHORIZED", "AUTHORIZED">> }

\* C17: every step that changes the status of an identity follows an edge of
\* the graph; in particular none takes it from UNKNOWN to AUTHORIZED.
C17_OnlyGraphEdges ==
    [][\A h \in authorized_hwids \cup pending_hwids \cup authorized_hwids' \cup pending_hwids' :
          LET from == Status(authorized_hwids, pending_hwids, h)
              to == Status(authorized_hwids', pending_hwids', h)
          IN  from = to \/ <<from, to>> \in Edges]_vars

NotFound == {"ID not found", "http_404"}

\* a decision that names an alias the mapping has no row for
Unresolved(r) ==
    /\ r.op \in Decisions
    /\ r.action \in {"approve", "deny"}
    /\ Len(r.short_id) = ShortIdLen
    /\ r.short_id \notin DOMAIN hwid_mapping

\* C18: a decision whose alias resolves to no identity changes nothing and is
\* answered as not found: none of its steps changes the pending table, the
\* authorized table or the alias mapping, for approve and for deny.
C18_UnresolvedChangesNothing ==
    [][\A p \in Procs :
          (req'[p] # req[p] /\ Unresolved(req'[p]))
              => /\ UNCHANGED <<authorized_hwids, pending_hwids, hwid_mapping>>
                 /\ req'[p].pc = "done" => req'[p].resp \in NotFound]_vars

\* a deny and an approve of an alias without a row have been answered, with
\* identities in the tables
C18_Witness ==
    \E p \in Procs :
        /\ Returned(p)
        /\ Unresolved(R(p))
        /\ R(p).resp \in NotFound
        /\ pending_hwids # {}
        /\ authorized_hwids # {}

Undelivered == {"failed", "timeout"}

\* C19: a notification that fails or times out fails nothing and undoes
\* nothing: the request is answered authorized: False and the pending row it
\* inserted stays; the decision is acknowledged and, its store calls having
\* succeeded, the approved identity is authorized and not pending, the denied
\* one in neither table: what a delivered notification leaves.
C19_NotificationFailureIsLocal ==
    \A p \in Procs :
        (Returned(p) /\ R(p).delivery \in Undelivered) =>
            IF R(p).op \in Requests
            THEN /\ R(p).resp = "not_authorized"
                 /\ R(p).entered => R(p).hwid \in pending_hwids
            ELSE /\ R(p).resp = Ack(R(p))
                 /\ (R(p).action = "approve" /\ ~R(p).db_failed)
                        => R(p).hwid \in authorized_hwids /\ R(p).hwid \notin pending_hwids
                 /\ (R(p).action = "deny" /\ ~R(p).db_failed)
                        => Unknown(R(p).hwid)

\* a request has put its identity into pending and the send timed out
C19_Witness ==
    \E p \in Procs :
        /\ Returned(p)
        /\ R(p).delivery = "timeout"
        /\ R(p).op \in Requests
        /\ R(p).entered
        /\ R(p).hwid \in pending_hwids

Malformed(raw) == NormalizeHwid(raw) = <<>> \/ Len(NormalizeHwid(raw)) > HwidColumnLen

\* C20: a request whose identity is empty once stripped, or longer than the
\* store takes, is rejected before anything changes: it is not answered as a
\* request of a device, it has inserted no pending row, its identity has no
\* alias row and it has sent no notification.
C20_MalformedRejected ==
    \A p \in Procs :
        (Returned(p) /\ R(p).op \in Requests /\ Malformed(R(p).raw))
            => /\ R(p).resp \notin {"not_authorized"} \cup Licenses
               /\ ~R(p).entered
               /\ R(p).hwid \notin pending_hwids
               /\ R(p).hwid \notin MappedHwids
               /\ R(p).sent = {}

\* C21: the store's add operations are idempotent and safe when handlers run
\* them together for one identity: every db_add_pending (db_add_authorized)
\* step leaves the identity in its table, which is keyed by hwid, changes no
\* other row, and lets the handler go on without an error, also when the row
\* is already there.
C21_AddsAreIdempotent ==
    [][\A p \in Procs :
          /\ (R(p).pc = "add_pending" /\ req'[p] # req[p])
                => /\ pending_hwids' = pending_hwids \cup {R(p).hwid}
                   /\ authorized_hwids' = authorized_hwids
                   /\ req'[p].pc = "sid_select"
          /\ (R(p).pc = "add_authorized" /\ req'[p] # req[p])
                => /\ authorized_hwids' = authorized_hwids \cup {R(p).hwid}
                   /\ pending_hwids' = pending_hwids
                   /\ req'[p].pc = "remove_pending" \/ req'[p].resp \in Approved]_vars

\* two approvals of one identity ran together and the second INSERT found the
\* row of the first
C21_Witness ==
    \E p, q \in Procs :
        /\ p # q
        /\ Returned(p) /\ Returned(q)
        /\ R(p).action = "approve" /\ R(q).action = "approve"
        /\ R(p).hwid = R(q).hwid
        /\ ~R(p).conflict /\ R(q).conflict
        /\ R(p).hwid \in authorized_hwids

\* the identity the operator's input names: the identity itself, or the one
\* the alias is mapped to
Designated(r) ==
    \/ r.hwid = r.short_id
    \/ r.short_id \in DOMAIN hwid_mapping /\ upper(hwid_mapping[r.short_id]) = r.hwid

\* C22: an approve changes the tables only for the identity its input
\* designates: every step of an approve that changes a table acts on that
\* identity and leaves every other identity where it was.
C22_ApproveOnlyDesignated ==
    [][\A p \in Procs :
          ( /\ req'[p] # req[p]
            /\ R(p).op \in Decisions
            /\ R(p).action = "approve"
            /\ <<authorized_hwids, pending_hwids>>' # <<authorized_hwids, pending_hwids>> )
              => /\ Designated(R(p))
                 /\ authorized_hwids' \ {R(p).hwid} = authorized_hwids \ {R(p).hwid}
                 /\ pending_hwids' \ {R(p).hwid} = pending_hwids \ {R(p).hwid}]_vars

\* C23: a decision is acknowledged as done only when it is done, whatever the
\* store calls do: after Approved the identity is in the authorized table,
\* after Denied it is in neither table.
C23_AcknowledgedMeansDone ==
    \A p \in Procs :
        (Returned(p) /\ R(p).op \in Decisions) =>
            /\ R(p).resp \in Approved => R(p).hwid \in authorized_hwids
            /\ R(p).resp = "Denied" => Unknown(R(p).hwid)

\* C24: a request of an identity that is authorized (and not pending) when it
\* arrives changes nothing but the timestamp: none of its steps changes the
\* pending table, the keys of the authorized table or the alias mapping, and
\* it returns without having sent the buttons.
C24_AuthorizedRequestOnlyTouches ==
    [][\A p \in Procs :
          ( /\ req'[p] # req[p]
            /\ R(p).op \in Requests
            /\ R(p).before = "authorized" )
              => /\ UNCHANGED <<authorized_hwids, pending_hwids, hwid_mapping>>
                 /\ req'[p].pc = "done" => req'[p].sent = {}]_vars

\* C25: a row of the alias mapping, once inserted, is never deleted and
\* never rewritten: every step leaves every alias mapped to the identity it
\* was mapped to.
C25_MappingsArePermanent ==
    [][\A s \in DOMAIN hwid_mapping :
          /\ s \in DOMAIN hwid_mapping'
          /\ hwid_mapping'[s] = hwid_mapping[s]]_vars

\* an identity has been denied, is in neither table, and the alias of its
\* notification still resolves to it, beside the alias of another identity
C25_Witness ==
    \E p \in Procs :
        /\ Returned(p)
        /\ R(p).resp = "Denied"
        /\ Unknown(R(p).hwid)
        /\ get_hwid_from_short_id(R(p).short_id, TRUE) = R(p).hwid
        /\ Cardinality(DOMAIN hwid_mapping) > 1

\* the identity's last decision is an approve: it was authorized, and neither
\* a deny nor a /remove of it has occurred since
LastApproved(hwid) == hwid \in DOMAIN last_decision /\ last_decision[hwid] = "approve"

\* C26: with the store answering and a usable signing key, an activation
\* request that arrives after an approve of the canonical form of its identity,
\* with no deny and no /remove of it since, is answered authorized: True with
\* a signed claim naming that canonical form, whatever the encoding sent.
C26_ApprovalLeadsToLicense ==
    \A p \in Procs :
        ( /\ Returned(p)
          /\ R(p).op = "activate"
          /\ LastApproved(upper(strip(R(p).raw)))
          /\ R(p).key \in {"none", "valid"} )
            => /\ R(p).resp = "authorized_signed"
               /\ R(p).payload = upper(strip(R(p).raw))

\* an approved identity has activated in an encoding that is not canonical
C26_Witness ==
    \E p \in Procs :
        /\ Returned(p)
        /\ R(p).op = "activate"
        /\ R(p).raw # upper(strip(R(p).raw))
        /\ LastApproved(upper(strip(R(p).raw)))
        /\ R(p).resp = "authorized_signed"

====
